---- MODULE Spec2Model ----
(***************************************************************************)
(* Model of tauri-plugin-macos-permissions: the ten commands of            *)
(* src/commands.rs, the command list of build.rs and the invoke handler    *)
(* that init() of src/lib.rs registers, running against an environment     *)
(* (the privacy database, the media authorization statuses, the home       *)
(* directory, the `open` executable and the processes it starts).          *)
(***************************************************************************)
EXTENDS Integers, Sequences, FiniteSets, TLC

VARIABLES
    platform,   \* target_os the crate was compiled for: "macos" or "other"
    tcc,        \* grant state of the kinds the privacy database answers for
    avStatus,   \* AVCaptureDevice authorization status of each media type
    homeDir,    \* what app_handle.path().home_dir() resolves to
    fsDirs,     \* the probe paths that exist as directories
    spawnErr,   \* the io::Error spawning `open` fails with, or "none"
    prompted,   \* kinds whose native consent prompt is on screen
    envSteps,   \* number of user / operating-system steps taken so far
    inv,        \* the invocations: one record per invocation slot
    proc        \* the process each invocation spawned

envVars == <<platform, tcc, avStatus, homeDir, fsDirs, spawnErr, prompted, envSteps>>
vars == <<platform, tcc, avStatus, homeDir, fsDirs, spawnErr, prompted, envSteps, inv, proc>>

-----------------------------------------------------------------------------
(* Bounds *)

\* number of invocation slots that may be in flight at once
NumInv == 2
\* number of user / operating-system steps in one behaviour
MaxEnvSteps == 2

Slots == 1 .. NumInv
\* the sequential specification drives one slot only
SeqSlots == {1}

-----------------------------------------------------------------------------
(* The command surface *)

\* build.rs: the command names the plugin declares to the host
COMMANDS ==
    << "check_accessibility_permission",
       "request_accessibility_permission",
       "check_full_disk_access_permission",
       "request_full_disk_access_permission",
       "check_screen_recording_permission",
       "request_screen_recording_permission",
       "check_microphone_permission",
       "request_microphone_permission",
       "check_audio_permission",
       "request_audio_permission" >>

\* the #[command] functions commands.rs defines
Defined ==
    { "check_accessibility_permission",
      "request_accessibility_permission",
      "check_full_disk_access_permission",
      "request_full_disk_access_permission",
      "check_screen_recording_permission",
      "request_screen_recording_permission",
      "check_microphone_permission",
      "request_microphone_permission",
      "check_audio_permission",
      "request_audio_permission" }

\* lib.rs: the paths handed to generate_handler! in init()
Registered ==
    { "check_accessibility_permissions",
      "request_accessibility_permissions",
      "check_full_disk_access_permissions",
      "request_full_disk_access_permissions" }

CommandNames == { COMMANDS[n] : n \in 1 .. Len(COMMANDS) }

\* the names a host may send to the plugin's invoke handler
InvokeNames == CommandNames \cup Registered

\* the handler runs a command only if it is registered and the registered path
\* names a function
Dispatches(name) == name \in Registered /\ name \in Defined

-----------------------------------------------------------------------------
(* The environment *)

GrantStates == { "NotDetermined", "Denied", "Granted" }
TccKinds == { "Accessibility", "FullDiskAccess", "ScreenRecording" }
MediaTypes == { "soun", "vide" }
\* AVAuthorizationStatus: 0 notDetermined, 1 restricted, 2 denied, 3 authorized
AVStatuses == 0 .. 3
IoErrors == { "NotFound", "PermissionDenied" }
ExitCodes == { 0, 1 }
HomePath == "/Users/me"
Unresolved == "unresolved"

\* the two protected directories of a macOS home directory the check probes
ProbeDirStocks == "Library/Containers/com.apple.stocks"
ProbeDirSafari == "Library/Safari"

\* PathBuf::join
Join(home, dir) == << home, dir >>

\* every cfg branch compiled as on the target platform
CfgGateMissing == TRUE
\* cfg(target_os = "macos")
IsMacos == platform = "macos"

\* std::fs::read_dir(path).is_ok(): the directory exists and the process may
\* list it (the probe directories are protected by full disk access)
read_dir_is_ok(path) == path \in fsDirs /\ tcc["FullDiskAccess"] = "Granted"

\* macos_accessibility_client: AXIsProcessTrusted
application_is_trusted == tcc["Accessibility"] = "Granted"

\* the prompts on screen after application_is_trusted_with_prompt()
application_is_trusted_with_prompt ==
    IF application_is_trusted THEN prompted ELSE prompted \cup { "Accessibility" }

\* core_graphics: CGPreflightScreenCaptureAccess
ScreenCaptureAccess_preflight == tcc["ScreenRecording"] = "Granted"

\* the prompts on screen after CGRequestScreenCaptureAccess
ScreenCaptureAccess_request ==
    IF ScreenCaptureAccess_preflight THEN prompted ELSE prompted \cup { "ScreenRecording" }

\* [AVCaptureDevice authorizationStatusForMediaType:]
authorizationStatusForMediaType(mediaType) == avStatus[mediaType]

\* Display of std::io::Error
IoErrorDisplay(e) ==
    IF e = "NotFound" THEN "No such file or directory (os error 2)"
    ELSE "Permission denied (os error 13)"

-----------------------------------------------------------------------------
(* Invocation records *)

NoProc == [ state |-> "none", arg |-> "", code |-> 0 ]

Idle ==
    [ pc |-> "idle", op |-> "", idx |-> 0, home |-> "", res |-> "none", msg |-> "",
      err |-> "none", stable |-> TRUE, tries |-> 0, fsops |-> 0 ]

\* the record of an invocation that has entered the body of op
Begin(op) == [ Idle EXCEPT !.pc = "running", !.op = op ]

\* a result cache shared by the invocations: a result another invocation holds
\* is handed out instead of the one computed
FinishCached(r, res, msg) ==
    IF \E j \in Slots : inv[j].pc = "done"
    THEN LET j == CHOOSE j \in Slots : inv[j].pc = "done"
         IN  [ r EXCEPT !.pc = "done", !.res = inv[j].res, !.msg = inv[j].msg ]
    ELSE [ r EXCEPT !.pc = "done", !.res = res, !.msg = msg ]
\* the invocation r returns res (and, for Err, the message msg)
Finish(r, res, msg) == [ r EXCEPT !.pc = "done", !.res = res, !.msg = msg ]

\* a bool as the command's return value
BoolRes(b) == IF b THEN "true" ELSE "false"

\* an environment step happens while these invocations are in progress or
\* their results are still held by the caller
Disturbed ==
    [ j \in Slots |->
        IF inv[j].pc = "idle" THEN inv[j] ELSE [ inv[j] EXCEPT !.stable = FALSE ] ]

-----------------------------------------------------------------------------
(* Accessibility *)

\* the check calling the prompting variant of the trust query
check_accessibility_prompting == application_is_trusted_with_prompt
\* the prompts on screen after application_is_trusted(): it shows none
check_accessibility_prompts == prompted

check_accessibility_permission(i) ==
    /\ inv[i].pc = "idle"
    /\ inv' = [ inv EXCEPT ![i] =
                  Finish(Begin("check_accessibility_permission"),
                         IF IsMacos THEN BoolRes(application_is_trusted) ELSE "true", "") ]
    /\ prompted' = IF IsMacos THEN check_accessibility_prompts ELSE prompted
    /\ UNCHANGED << platform, tcc, avStatus, homeDir, fsDirs, spawnErr, envSteps, proc >>

request_accessibility_permission(i) ==
    /\ inv[i].pc = "idle"
    /\ inv' = [ inv EXCEPT ![i] =
                  Finish(Begin("request_accessibility_permission"), "unit", "") ]
    /\ prompted' = IF IsMacos THEN application_is_trusted_with_prompt ELSE prompted
    /\ UNCHANGED << platform, tcc, avStatus, homeDir, fsDirs, spawnErr, envSteps, proc >>

-----------------------------------------------------------------------------
(* Full disk access *)

\* the probe list cut to its first entry
check_dirs_first_only == << "Library/Containers/com.apple.stocks" >>
\* let check_dirs = vec![...]
check_dirs == << "Library/Containers/com.apple.stocks", "Library/Safari" >>

\* entry: the cfg branch and the home directory lookup
check_full_disk_access_permission(i) ==
    /\ inv[i].pc = "idle"
    /\ LET r == Begin("check_full_disk_access_permission")
       IN  inv' = [ inv EXCEPT ![i] =
                 IF ~IsMacos THEN Finish(r, "true", "")
                 ELSE IF homeDir = Unresolved
                      THEN Finish([ r EXCEPT !.fsops = 1 ], "false", "")
                      ELSE [ r EXCEPT !.pc = "probe", !.idx = 1, !.home = homeDir,
                                      !.fsops = 1 ] ]
    /\ UNCHANGED << envVars, proc >>

\* one iteration of the loop over check_dirs
probe_check_dir(i) ==
    /\ inv[i].pc = "probe"
    /\ LET c == inv[i].idx
           r == [ inv[i] EXCEPT !.fsops = @ + 1 ]
       IN  inv' = [ inv EXCEPT ![i] =
                 IF read_dir_is_ok(Join(inv[i].home, check_dirs[c]))
                 THEN Finish(r, "true", "")
                 ELSE IF c < Len(check_dirs)
                      THEN [ r EXCEPT !.idx = c + 1 ]
                      ELSE Finish(r, "false", "") ]
    /\ UNCHANGED << envVars, proc >>

-----------------------------------------------------------------------------
(* Opening a settings pane *)

PaneAllFiles == "x-apple.systempreferences:com.apple.preference.security?Privacy_AllFiles"
PaneMicrophone == "x-apple.systempreferences:com.apple.preference.security?Privacy_Microphone"
PaneAudio == "x-apple.systempreferences:com.apple.preference.security?Privacy_AudioRecording"

\* the microphone request opening the pane of the audio request
SettingsPaneCopied(op) ==
    IF op = "request_full_disk_access_permission" THEN PaneAllFiles
    ELSE PaneAudio
\* the argument each request hands to `open`
SettingsPane(op) ==
    IF op = "request_full_disk_access_permission" THEN PaneAllFiles
    ELSE IF op = "request_microphone_permission" THEN PaneMicrophone
    ELSE PaneAudio

\* the closure returning the error's kind instead of its text
map_err_debug_kind(e) == e
\* .map_err(|error| error.to_string())
map_err_to_string(e) == IoErrorDisplay(e)

\* Command::new("open").arg(pane).output(), up to the spawn; `?` returns the
\* error at once, otherwise output() goes on to wait for the child
open_settings_pane(i, op) ==
    /\ inv[i].pc = "idle"
    /\ LET r == Begin(op)
       IN  IF ~IsMacos
           THEN /\ inv' = [ inv EXCEPT ![i] = Finish(r, "Ok", "") ]
                /\ proc' = proc
           ELSE IF spawnErr = "none"
           THEN /\ inv' = [ inv EXCEPT ![i] = [ r EXCEPT !.pc = "wait", !.tries = 1 ] ]
                /\ proc' = [ proc EXCEPT ![i] =
                               [ state |-> "running", arg |-> SettingsPane(op), code |-> 0 ] ]
           ELSE /\ inv' = [ inv EXCEPT ![i] =
                              Finish([ r EXCEPT !.tries = 1, !.err = spawnErr ],
                                     "Err", map_err_to_string(spawnErr)) ]
                /\ proc' = proc
    /\ UNCHANGED envVars

request_full_disk_access_permission(i) ==
    open_settings_pane(i, "request_full_disk_access_permission")

request_microphone_permission(i) ==
    open_settings_pane(i, "request_microphone_permission")

request_audio_permission(i) ==
    open_settings_pane(i, "request_audio_permission")

\* Command::spawn in place of Command::output: returns as soon as the child runs
spawn_returns(i) == proc[i].state # "none"
\* Command::output returns once the child has exited and its output is read
output_returns(i) == proc[i].state = "exited"

\* the rest of output(): the exit status is in the Output that is dropped
output_wait(i) ==
    /\ inv[i].pc = "wait"
    /\ output_returns(i)
    /\ inv' = [ inv EXCEPT ![i] = Finish(inv[i], "Ok", "") ]
    /\ UNCHANGED << envVars, proc >>

\* the spawned `open` exits with some status
ProcExit(i, code) ==
    /\ proc[i].state = "running"
    /\ proc' = [ proc EXCEPT ![i] = [ @ EXCEPT !.state = "exited", !.code = code ] ]
    /\ UNCHANGED << envVars, inv >>

-----------------------------------------------------------------------------
(* Screen recording *)

check_screen_recording_permission(i) ==
    /\ inv[i].pc = "idle"
    /\ inv' = [ inv EXCEPT ![i] =
                  Finish(Begin("check_screen_recording_permission"),
                         IF IsMacos THEN BoolRes(ScreenCaptureAccess_preflight) ELSE "true",
                         "") ]
    /\ UNCHANGED << envVars, proc >>

request_screen_recording_permission(i) ==
    /\ inv[i].pc = "idle"
    /\ inv' = [ inv EXCEPT ![i] =
                  Finish(Begin("request_screen_recording_permission"), "unit", "") ]
    /\ prompted' = IF IsMacos THEN ScreenCaptureAccess_request ELSE prompted
    /\ UNCHANGED << platform, tcc, avStatus, homeDir, fsDirs, spawnErr, envSteps, proc >>

-----------------------------------------------------------------------------
(* Microphone and audio *)

\* the string each check builds its NSString media type from
av_media_type(op) ==
    IF op = "check_microphone_permission" THEN "vide" ELSE "soun"

\* 3 is AVAuthorizationStatusAuthorized
AVAuthorizationStatusAuthorized == 3

check_microphone_permission(i) ==
    /\ inv[i].pc = "idle"
    /\ LET auth_status ==
               authorizationStatusForMediaType(av_media_type("check_microphone_permission"))
       IN  inv' = [ inv EXCEPT ![i] =
                  Finish(Begin("check_microphone_permission"),
                         IF IsMacos
                         THEN BoolRes(auth_status = AVAuthorizationStatusAuthorized)
                         ELSE "true", "") ]
    /\ UNCHANGED << envVars, proc >>

check_audio_permission(i) ==
    /\ inv[i].pc = "idle"
    /\ LET auth_status ==
               authorizationStatusForMediaType(av_media_type("check_audio_permission"))
       IN  inv' = [ inv EXCEPT ![i] =
                  Finish(Begin("check_audio_permission"),
                         IF IsMacos
                         THEN BoolRes(auth_status = AVAuthorizationStatusAuthorized)
                         ELSE "true", "") ]
    /\ UNCHANGED << envVars, proc >>

-----------------------------------------------------------------------------
(* The host *)

\* the body a dispatched command name runs
Enter(i, name) ==
    \/ name = "check_accessibility_permission" /\ check_accessibility_permission(i)
    \/ name = "request_accessibility_permission" /\ request_accessibility_permission(i)
    \/ name = "check_full_disk_access_permission" /\ check_full_disk_access_permission(i)
    \/ name = "request_full_disk_access_permission" /\ request_full_disk_access_permission(i)
    \/ name = "check_screen_recording_permission" /\ check_screen_recording_permission(i)
    \/ name = "request_screen_recording_permission" /\ request_screen_recording_permission(i)
    \/ name = "check_microphone_permission" /\ check_microphone_permission(i)
    \/ name = "request_microphone_permission" /\ request_microphone_permission(i)
    \/ name = "check_audio_permission" /\ check_audio_permission(i)
    \/ name = "request_audio_permission" /\ request_audio_permission(i)

\* the host sends a command name to the handler init() built; a name the
\* handler does not know is rejected without running anything
Invoke(i, name) ==
    /\ inv[i].pc = "idle"
    /\ IF Dispatches(name)
       THEN Enter(i, name)
       ELSE /\ inv' = [ inv EXCEPT ![i] = [ Idle EXCEPT !.pc = "rejected", !.op = name ] ]
            /\ UNCHANGED << envVars, proc >>

\* the caller takes the result; the Output and the child handle are dropped
Return(i) ==
    /\ inv[i].pc \in { "done", "rejected" }
    /\ inv' = [ inv EXCEPT ![i] = Idle ]
    /\ proc' = [ proc EXCEPT ![i] = NoProc ]
    /\ UNCHANGED envVars

-----------------------------------------------------------------------------
(* The user and the operating system *)

\* the user answers a prompt or changes a switch in System Settings
UserSetsGrant(k, s) ==
    /\ envSteps < MaxEnvSteps
    /\ tcc[k] # s
    /\ tcc' = [ tcc EXCEPT ![k] = s ]
    /\ prompted' = prompted \ { k }
    /\ envSteps' = envSteps + 1
    /\ inv' = Disturbed
    /\ UNCHANGED << platform, avStatus, homeDir, fsDirs, spawnErr, proc >>

\* the authorization status of a media type changes
UserSetsMedia(m, s) ==
    /\ envSteps < MaxEnvSteps
    /\ avStatus[m] # s
    /\ avStatus' = [ avStatus EXCEPT ![m] = s ]
    /\ envSteps' = envSteps + 1
    /\ inv' = Disturbed
    /\ UNCHANGED << platform, tcc, homeDir, fsDirs, spawnErr, prompted, proc >>

\* spawning `open` starts or stops failing
SpawnCondition(e) ==
    /\ envSteps < MaxEnvSteps
    /\ spawnErr # e
    /\ spawnErr' = e
    /\ envSteps' = envSteps + 1
    /\ inv' = Disturbed
    /\ UNCHANGED << platform, tcc, avStatus, homeDir, fsDirs, prompted, proc >>

-----------------------------------------------------------------------------
(* Specifications *)

ProbePaths == { Join(HomePath, ProbeDirStocks), Join(HomePath, ProbeDirSafari) }

NoInvocations ==
    /\ inv = [ j \in Slots |-> Idle ]
    /\ proc = [ j \in Slots |-> NoProc ]

\* a fresh installation: nothing decided yet, any layout of the home directory
Init ==
    /\ platform \in { "macos", "other" }
    /\ tcc = [ k \in TccKinds |-> "NotDetermined" ]
    /\ avStatus = [ m \in MediaTypes |-> 0 ]
    /\ homeDir \in { HomePath, Unresolved }
    /\ fsDirs \in SUBSET ProbePaths
    /\ spawnErr = "none"
    /\ prompted = {}
    /\ envSteps = 0
    /\ NoInvocations

Next ==
    \/ \E i \in SeqSlots : check_accessibility_permission(i)
    \/ \E i \in SeqSlots : request_accessibility_permission(i)
    \/ \E i \in SeqSlots : check_full_disk_access_permission(i)
    \/ \E i \in SeqSlots : probe_check_dir(i)
    \/ \E i \in SeqSlots : request_full_disk_access_permission(i)
    \/ \E i \in SeqSlots : check_screen_recording_permission(i)
    \/ \E i \in SeqSlots : request_screen_recording_permission(i)
    \/ \E i \in SeqSlots : check_microphone_permission(i)
    \/ \E i \in SeqSlots : request_microphone_permission(i)
    \/ \E i \in SeqSlots : check_audio_permission(i)
    \/ \E i \in SeqSlots : request_audio_permission(i)
    \/ \E i \in SeqSlots : output_wait(i)
    \/ \E i \in SeqSlots, code \in ExitCodes : ProcExit(i, code)
    \/ \E i \in SeqSlots, name \in InvokeNames : Invoke(i, name)
    \/ \E i \in SeqSlots : Return(i)
    \/ \E k \in TccKinds, s \in GrantStates : UserSetsGrant(k, s)
    \/ \E m \in MediaTypes, s \in AVStatuses : UserSetsMedia(m, s)
    \/ \E e \in IoErrors \cup { "none" } : SpawnCondition(e)

Spec == Init /\ [][Next]_vars

\* concurrent invocations against an environment that stays put
ConcInit ==
    /\ platform \in { "macos", "other" }
    /\ tcc \in { [ k \in TccKinds |-> "NotDetermined" ], [ k \in TccKinds |-> "Granted" ] }
    /\ avStatus = [ m \in MediaTypes |-> IF m = "soun" THEN 3 ELSE 0 ]
    /\ homeDir = HomePath
    /\ fsDirs \in { { Join(HomePath, ProbeDirStocks) }, { Join(HomePath, ProbeDirSafari) } }
    /\ spawnErr \in { "none", "NotFound" }
    /\ prompted = {}
    /\ envSteps = 0
    /\ NoInvocations

ConcNext ==
    \/ \E i \in Slots : check_accessibility_permission(i)
    \/ \E i \in Slots : request_accessibility_permission(i)
    \/ \E i \in Slots : check_full_disk_access_permission(i)
    \/ \E i \in Slots : probe_check_dir(i)
    \/ \E i \in Slots : request_full_disk_access_permission(i)
    \/ \E i \in Slots : check_screen_recording_permission(i)
    \/ \E i \in Slots : request_screen_recording_permission(i)
    \/ \E i \in Slots : check_microphone_permission(i)
    \/ \E i \in Slots : request_microphone_permission(i)
    \/ \E i \in Slots : check_audio_permission(i)
    \/ \E i \in Slots : request_audio_permission(i)
    \/ \E i \in Slots : output_wait(i)
    \/ \E i \in Slots, code \in ExitCodes : ProcExit(i, code)
    \/ \E i \in Slots, name \in InvokeNames : Invoke(i, name)
    \/ \E i \in Slots : Return(i)

ConcSpec == ConcInit /\ [][ConcNext]_vars

-----------------------------------------------------------------------------
(* Properties *)

CheckOps ==
    { "check_accessibility_permission", "check_full_disk_access_permission",
      "check_screen_recording_permission", "check_microphone_permission",
      "check_audio_permission" }

PromptOps == { "request_accessibility_permission", "request_screen_recording_permission" }

PaneOps ==
    { "request_full_disk_access_permission", "request_microphone_permission",
      "request_audio_permission" }

\* invocation i has returned from op and the environment has not moved since
\* it was called
Returned(i, op) == inv[i].pc = "done" /\ inv[i].op = op /\ inv[i].stable

\* the probe directory d under the home directory can be listed
Listable(d) == homeDir # Unresolved /\ read_dir_is_ok(Join(homeDir, d))

\* C1: on the target platform check_full_disk_access_permission returns true
\* if and only if the home directory resolves and at least one of the two
\* probe directories under it can be listed.
C1_FullDiskCheck ==
    \A i \in Slots :
        (IsMacos /\ Returned(i, "check_full_disk_access_permission"))
            => /\ inv[i].res \in { "true", "false" }
               /\ (inv[i].res = "true")
                    <=> (Listable(ProbeDirStocks) \/ Listable(ProbeDirSafari))

\* C1 witness: the check has returned true with only the browser data
\* directory listable.
C1_Witness ==
    /\ IsMacos
    /\ Returned(1, "check_full_disk_access_permission")
    /\ inv[1].res = "true"
    /\ ~Listable(ProbeDirStocks)
    /\ Listable(ProbeDirSafari)

\* AVMediaTypeAudio, the media type of the microphone and of audio capture
AVMediaTypeAudio == "soun"

\* C2: on the target platform check_microphone_permission and
\* check_audio_permission each return true exactly when the authorization
\* status of the audio media type is 'authorized' (3).
C2_MediaChecks ==
    \A i \in Slots :
        \A op \in { "check_microphone_permission", "check_audio_permission" } :
            (IsMacos /\ Returned(i, op))
                => ((inv[i].res = "true") <=> (avStatus[AVMediaTypeAudio] = 3))

\* C3: off the target platform every check returns true and every request
\* returns success, whatever the environment, and nothing is spawned, probed
\* or prompted.
C3_Fallback ==
    platform = "other"
        => /\ prompted = {}
           /\ \A i \in Slots :
                /\ inv[i].pc \in { "idle", "done", "rejected" }
                /\ proc[i] = NoProc
                /\ inv[i].tries = 0
                /\ inv[i].fsops = 0
                /\ inv[i].pc = "done"
                     => /\ inv[i].op \in CheckOps => inv[i].res = "true"
                        /\ inv[i].op \in PromptOps => inv[i].res = "unit"
                        /\ inv[i].op \in PaneOps => inv[i].res = "Ok"
                        /\ inv[i].op \in CheckOps \cup PromptOps \cup PaneOps

\* C3 witness: off the target platform a settings request has returned Ok in
\* an environment where spawning `open` fails.
C3_Witness ==
    /\ platform = "other"
    /\ spawnErr # "none"
    /\ Returned(1, "request_full_disk_access_permission")
    /\ inv[1].res = "Ok"

\* C4: every process a settings request spawns is given the identifier of the
\* request's own kind, and the three identifiers differ.
C4_FixedPanes ==
    /\ Cardinality({ PaneAllFiles, PaneMicrophone, PaneAudio }) = 3
    /\ \A i \in Slots :
         proc[i].state # "none"
            => /\ inv[i].op \in PaneOps
               /\ inv[i].op = "request_full_disk_access_permission"
                    => proc[i].arg = PaneAllFiles
               /\ inv[i].op = "request_microphone_permission"
                    => proc[i].arg = PaneMicrophone
               /\ inv[i].op = "request_audio_permission"
                    => proc[i].arg = PaneAudio

\* C4 witness: the microphone request has spawned `open` on the microphone
\* pane.
C4_Witness ==
    /\ inv[1].op = "request_microphone_permission"
    /\ proc[1].state = "running"
    /\ proc[1].arg = PaneMicrophone

CheckStep(i) ==
    /\ inv[i].pc \in { "idle", "probe" }
    /\ inv'[i].pc \in { "probe", "done" }
    /\ inv'[i].op \in CheckOps
    /\ inv'[i] # inv[i]

\* C6: a check always returns a boolean, changes nothing of the environment,
\* and returns what a check of the same kind still held by its caller
\* returned when the environment has not moved in between.
C6_CheckIsPure ==
    [][ \A i \in Slots :
          CheckStep(i)
            => /\ UNCHANGED << platform, tcc, avStatus, homeDir, fsDirs, spawnErr,
                              prompted, envSteps, proc >>
               /\ inv'[i].pc = "done"
                    => /\ inv'[i].res \in { "true", "false" }
                       /\ \A j \in Slots :
                            ( /\ inv'[j].pc = "done"
                              /\ inv'[j].op = inv'[i].op
                              /\ inv'[j].stable
                              /\ inv'[i].stable )
                                => inv'[j].res = inv'[i].res ]_vars

\* C6 witness: two accessibility checks have returned while the consent
\* prompt a request put up is on screen.
C6_Witness ==
    /\ IsMacos
    /\ Returned(1, "check_accessibility_permission")
    /\ Returned(2, "check_accessibility_permission")
    /\ "Accessibility" \in prompted

\* C7: the handler init() registers exactly the ten commands of COMMANDS,
\* each of them defined, so no command of the interface is rejected.
C7_HandlerComplete ==
    /\ Registered = CommandNames
    /\ CommandNames = Defined
    /\ Cardinality(Registered) = 10
    /\ \A i \in Slots : inv[i].pc # "rejected"

\* what op returns when it runs alone against the current environment
AloneResult(op) ==
    IF op \in CheckOps
    THEN << IF ~IsMacos THEN "true"
            ELSE IF op = "check_accessibility_permission"
                 THEN BoolRes(tcc["Accessibility"] = "Granted")
            ELSE IF op = "check_screen_recording_permission"
                 THEN BoolRes(tcc["ScreenRecording"] = "Granted")
            ELSE IF op = "check_full_disk_access_permission"
                 THEN BoolRes(Listable(ProbeDirStocks) \/ Listable(ProbeDirSafari))
            ELSE BoolRes(avStatus[av_media_type(op)] = 3),
            "" >>
    ELSE IF op \in PromptOps THEN << "unit", "" >>
    ELSE IF IsMacos /\ spawnErr # "none"
         THEN << "Err", IoErrorDisplay(spawnErr) >>
         ELSE << "Ok", "" >>

\* C8: under every interleaving each invocation returns what it would return
\* if run alone against the same environment.
C8_Independent ==
    \A i \in Slots :
        (inv[i].pc = "done" /\ inv[i].stable)
            => << inv[i].res, inv[i].msg >> = AloneResult(inv[i].op)

\* C8 witness: a full disk access check has run its probes and returned true
\* while a settings request of another invocation was waiting for its process.
C8_Witness ==
    /\ IsMacos
    /\ inv[1].pc = "wait"
    /\ inv[1].op = "request_microphone_permission"
    /\ proc[1].state = "running"
    /\ Returned(2, "check_full_disk_access_permission")
    /\ inv[2].res = "true"
    /\ inv[2].fsops = 3

\* C9 as stated: once the spawn has succeeded the request can return while
\* the spawned process is still running.
C9_ReturnsWhileRunning ==
    \A i \in Slots :
        (inv[i].pc = "wait" /\ proc[i].state = "running") => ENABLED output_wait(i)

\* C9 amended: a settings request returns only after the process it spawned
\* has exited; while that process runs the request cannot return.
C9_AwaitsExit ==
    \A i \in Slots :
        /\ (inv[i].pc = "done" /\ inv[i].op \in PaneOps /\ inv[i].res = "Ok" /\ IsMacos)
             => proc[i].state = "exited"
        /\ (inv[i].pc = "wait" /\ proc[i].state = "running") => ~ENABLED output_wait(i)

\* C9 witness: a settings request has returned Ok after its process exited
\* with a failure status.
C9_Witness ==
    /\ Returned(1, "request_full_disk_access_permission")
    /\ inv[1].res = "Ok"
    /\ proc[1].state = "exited"
    /\ proc[1].code = 1

\* the permission kind a check is about
KindOf(op) ==
    IF op = "check_accessibility_permission" THEN "Accessibility"
    ELSE IF op = "check_full_disk_access_permission" THEN "FullDiskAccess"
    ELSE IF op = "check_screen_recording_permission" THEN "ScreenRecording"
    ELSE IF op = "check_microphone_permission" THEN "Microphone"
    ELSE "Audio"

\* the state of a kind among NotDetermined, Denied, Granted
GrantOf(kind) ==
    IF kind \in TccKinds THEN tcc[kind]
    ELSE IF avStatus[AVMediaTypeAudio] = 0 THEN "NotDetermined"
    ELSE IF avStatus[AVMediaTypeAudio] = 3 THEN "Granted"
    ELSE "Denied"

\* C10: the state of a kind changes only in a user step, never in a step of
\* the broker, and a check returns true exactly when its kind is Granted.
C10_OnlyUserChangesGrants ==
    [][ /\ (tcc' # tcc \/ avStatus' # avStatus) => envSteps' = envSteps + 1
        /\ \A i \in Slots :
             \A op \in CheckOps :
                (IsMacos /\ inv'[i].pc = "done" /\ inv'[i].op = op /\ inv'[i].stable)
                    => ((inv'[i].res = "true") <=> (GrantOf(KindOf(op))' = "Granted")) ]_vars

====
